---- MODULE Spec2Model ----
(***************************************************************************)
(* Model of the Ahmedabad GeoAI dashboard: the Template Selector           *)
(* (generateWorkflowSteps), the session list and layer list held by the    *)
(* Index page, its four handlers, the two setTimeout callbacks, and the    *)
(* guards the ChatPanel and WorkflowStep components put on the buttons     *)
(* that invoke the handlers.                                               *)
(*                                                                         *)
(* Strings the code inspects (the query text) are sequences of one-        *)
(* character strings, so that toLowerCase, includes and trim are           *)
(* computed.  Strings the code only stores and shows are TLA+ strings.     *)
(* Time is counted in units of 1000 ms: the step timer is 2 units, the     *)
(* workflow timer 5 units.                                                 *)
(***************************************************************************)
EXTENDS Integers, Sequences, FiniteSets, Bags, TLC

\* ---------------------------------------------------------------- bounds
MaxSessions == 2     \* sessions submitted in one behaviour
MaxRuns     == 2     \* executeWorkflow invocations in one behaviour
MaxEdited   == 1     \* steps that carry edited parameters
MaxTimers   == 4     \* setTimeout callbacks pending at a time
MaxTotalSteps == 5   \* steps of all sessions together
MaxTokens   == 3     \* tokens concatenated into a query of SelectorSpec

\* ------------------------------------------------------- program constants
WorkflowDelay == 5   \* setTimeout(..., 5000) of handleExecuteWorkflow

\* A step delay longer than the workflow delay.
StepDelaySlow == WorkflowDelay + 1

StepDelay     == 2   \* setTimeout(..., 2000) of handleExecuteStep

\* ------------------------------------------------------------- characters
UpperCase ==
    <<"A", "B", "C", "D", "E", "F", "G", "H", "I", "J", "K", "L", "M",
      "N", "O", "P", "Q", "R", "S", "T", "U", "V", "W", "X", "Y", "Z">>

LowerCase ==
    <<"a", "b", "c", "d", "e", "f", "g", "h", "i", "j", "k", "l", "m",
      "n", "o", "p", "q", "r", "s", "t", "u", "v", "w", "x", "y", "z">>

LowerOf ==
    [c \in {UpperCase[k] : k \in 1..Len(UpperCase)} |->
        LowerCase[CHOOSE k \in 1..Len(UpperCase) : UpperCase[k] = c]]

\* String.prototype.toLowerCase, one character
LowerChar(c) == IF c \in DOMAIN LowerOf THEN LowerOf[c] ELSE c

\* String.prototype.toLowerCase
toLowerCase(s) == [k \in 1..Len(s) |-> LowerChar(s[k])]

\* String.prototype.includes
includes(s, kw) ==
    \E i \in 1..(Len(s) - Len(kw) + 1) : SubSeq(s, i, i + Len(kw) - 1) = kw

RECURSIVE TrimStart(_)
TrimStart(s) ==
    IF s # <<>> /\ Head(s) = " " THEN TrimStart(Tail(s)) ELSE s

RECURSIVE TrimEnd(_)
TrimEnd(s) ==
    IF s # <<>> /\ s[Len(s)] = " " THEN TrimEnd(SubSeq(s, 1, Len(s) - 1)) ELSE s

\* String.prototype.trim
trim(s) == TrimEnd(TrimStart(s))

KwFlood == <<"f", "l", "o", "o", "d">>
KwPark  == <<"p", "a", "r", "k">>
KwGreen == <<"g", "r", "e", "e", "n">>
KwHeat  == <<"h", "e", "a", "t">>

\* ------------------------------------------------------- parameter values
\* A parameter value is a JavaScript number or string; text is String(value).
Num(t) == [num |-> TRUE, text |-> t]
Str(t) == [num |-> FALSE, text |-> t]

\* WorkflowStep.result is optional: <<>> when absent, <<r>> when present.
NoResult == <<>>

NewStep(id, operation, input, parameters, explanation) ==
    [id |-> id, operation |-> operation, input |-> input,
     parameters |-> parameters, explanation |-> explanation,
     status |-> "pending", editable |-> TRUE, result |-> NoResult]

FloodTemplate ==
    << NewStep("step-1", "Data Collection",
               "Ahmedabad elevation data from SRTM",
               [resolution |-> Str("30m"), bounds |-> Str("ahmedabad_boundary")],
               "Collect digital elevation model to understand terrain and water flow patterns"),
       NewStep("step-2", "Hydrological Analysis",
               "DEM + precipitation data",
               [rainfall_threshold |-> Str("100mm"), buffer_distance |-> Str("500m")],
               "Analyze water accumulation areas and drainage patterns during heavy rainfall"),
       NewStep("step-3", "Risk Zone Classification",
               "Flow accumulation + historical flood data",
               [risk_levels |-> Num("3"), confidence_threshold |-> Num("0.8")],
               "Classify areas into high, medium, and low flood risk zones based on multiple factors") >>

GreenTemplate ==
    << NewStep("step-1", "Green Space Detection",
               "Sentinel-2 satellite imagery",
               [ndvi_threshold |-> Num("0.4"), min_area |-> Str("1000m2")],
               "Use NDVI to identify vegetated areas and filter by minimum size"),
       NewStep("step-2", "Proximity Analysis",
               "Green spaces + reference point",
               [search_radius |-> Str("2000m"), transport_mode |-> Str("walking")],
               "Calculate accessibility to green spaces within walking distance") >>

HeatTemplate ==
    << NewStep("step-1", "Land Surface Temperature",
               "Landsat thermal bands",
               [date_range |-> Str("2023-04-01_2023-06-30"), cloud_cover |-> Num("20")],
               "Calculate land surface temperature from thermal infrared imagery"),
       NewStep("step-2", "Urban Heat Island Detection",
               "LST + land cover classification",
               \* the source writes 35 degrees Celsius with the degree sign
               [temperature_threshold |-> Str("35C"), urban_buffer |-> Str("1km")],
               "Identify areas with significantly higher temperatures than surroundings") >>

\* A selector that tests the query as typed, without toLowerCase.
generateWorkflowStepsCaseSensitive(query) ==
    IF includes(query, KwFlood) THEN FloodTemplate
    ELSE IF includes(query, KwPark) \/ includes(query, KwGreen)
         THEN GreenTemplate
    ELSE IF includes(query, KwHeat) THEN HeatTemplate
    ELSE <<>>

\* The Template Selector.
generateWorkflowSteps(query) ==
    IF includes(toLowerCase(query), KwFlood) THEN FloodTemplate
    ELSE IF includes(toLowerCase(query), KwPark)
            \/ includes(toLowerCase(query), KwGreen)
         THEN GreenTemplate
    ELSE IF includes(toLowerCase(query), KwHeat) THEN HeatTemplate
    ELSE <<>>

\* ------------------------------------------------------------------ state
VARIABLES
    queries,     \* useState<GeoQuery[]>: the session list, in submission order
    mapLayers,   \* useState<MapLayer[]>: the layer list, in append order
    timers       \* the pending setTimeout callbacks: a bag of timers

vars == <<queries, mapLayers, timers>>

Init ==
    /\ queries = <<>>
    /\ mapLayers = <<>>
    /\ timers = EmptyBag

\* `query-${Date.now()}`: the clock moves on between two submissions, so the
\* ids of a behaviour are distinct; the n-th session gets n.
NewQueryId(qs) == Len(qs) + 1

\* handleSubmitQuery
HandleSubmitQuery(query) ==
    /\ queries' = Append(queries,
                         [id |-> NewQueryId(queries),
                          query |-> query,
                          steps |-> generateWorkflowSteps(query),
                          status |-> "processing"])
    /\ UNCHANGED <<mapLayers, timers>>

\* ------------------------------------------------------------ the handlers
\* { ...step, ...updates }
Merge(step, updates) ==
    [f \in (DOMAIN step) \cup (DOMAIN updates) |->
        IF f \in DOMAIN updates THEN updates[f] ELSE step[f]]

\* An edit that appends the edited copy of the step instead of replacing it.
HandleEditStepAppending(qs, queryId, stepId, updates) ==
    [i \in DOMAIN qs |->
        IF qs[i].id = queryId
        THEN [qs[i] EXCEPT !.steps =
                 @ \o SelectSeq([j \in DOMAIN @ |-> Merge(@[j], updates)],
                                LAMBDA st : st.id = stepId)]
        ELSE qs[i]]

\* handleEditStep: the updater given to setQueries
HandleEditStep(qs, queryId, stepId, updates) ==
    [i \in DOMAIN qs |->
        IF qs[i].id = queryId
        THEN [qs[i] EXCEPT !.steps =
                 [j \in DOMAIN @ |->
                     IF @[j].id = stepId THEN Merge(@[j], updates) ELSE @[j]]]
        ELSE qs[i]]

\* handleExecuteStep, first setQueries: the step is marked executing
MarkExecuting(qs, queryId, stepId) ==
    [i \in DOMAIN qs |->
        IF qs[i].id = queryId
        THEN [qs[i] EXCEPT !.steps =
                 [j \in DOMAIN @ |->
                     IF @[j].id = stepId
                     THEN [@[j] EXCEPT !.status = "executing"]
                     ELSE @[j]]]
        ELSE qs[i]]

\* The constant result payload of a completed step.
StepResult ==
    [message |-> "Step completed successfully", data |-> "sample_output.geojson"]

\* A callback that completes the step only if it is still pending.
StepTimerCallbackIfPending(qs, queryId, stepId) ==
    [i \in DOMAIN qs |->
        IF qs[i].id = queryId
        THEN [qs[i] EXCEPT !.steps =
                 [j \in DOMAIN @ |->
                     IF @[j].id = stepId /\ @[j].status = "pending"
                     THEN [@[j] EXCEPT !.status = "completed",
                                       !.result = <<[message |-> "Step completed successfully",
                                                     data |-> "sample_output.geojson"]>>]
                     ELSE @[j]]]
        ELSE qs[i]]

\* A callback that marks the step completed and attaches no result.
StepTimerCallbackNoResult(qs, queryId, stepId) ==
    [i \in DOMAIN qs |->
        IF qs[i].id = queryId
        THEN [qs[i] EXCEPT !.steps =
                 [j \in DOMAIN @ |->
                     IF @[j].id = stepId
                     THEN [@[j] EXCEPT !.status = "completed"]
                     ELSE @[j]]]
        ELSE qs[i]]

\* A callback that marks the step with the wrong status of the type.
StepTimerCallbackError(qs, queryId, stepId) ==
    [i \in DOMAIN qs |->
        IF qs[i].id = queryId
        THEN [qs[i] EXCEPT !.steps =
                 [j \in DOMAIN @ |->
                     IF @[j].id = stepId
                     THEN [@[j] EXCEPT !.status = "error"]
                     ELSE @[j]]]
        ELSE qs[i]]

\* A callback that finds the step by its id alone, in every session.
StepTimerCallbackAnySession(qs, queryId, stepId) ==
    [i \in DOMAIN qs |->
        [qs[i] EXCEPT !.steps =
            [j \in DOMAIN @ |->
                IF @[j].id = stepId
                THEN [@[j] EXCEPT !.status = "completed",
                                  !.result = <<[message |-> "Step completed successfully",
                                                data |-> "sample_output.geojson"]>>]
                ELSE @[j]]]]

\* handleExecuteStep, the setTimeout callback: the step is marked completed
StepTimerCallback(qs, queryId, stepId) ==
    [i \in DOMAIN qs |->
        IF qs[i].id = queryId
        THEN [qs[i] EXCEPT !.steps =
                 [j \in DOMAIN @ |->
                     IF @[j].id = stepId
                     THEN [@[j] EXCEPT !.status = "completed",
                                       !.result = <<StepResult>>]
                     ELSE @[j]]]
        ELSE qs[i]]

StepTimer(queryId, stepId) ==
    [kind |-> "step", queryId |-> queryId, stepId |-> stepId,
     query |-> <<>>, remaining |-> StepDelay]

\* The workflow callback closes over the session found when the button was
\* pressed; the only field of it the callback reads is the query text.
WorkflowTimer(queryId, query) ==
    [kind |-> "workflow", queryId |-> queryId, stepId |-> "",
     query |-> query, remaining |-> WorkflowDelay]

\* handleExecuteStep: the state and the timer queue after the call
handleExecuteStep(st, queryId, stepId) ==
    [queries |-> MarkExecuting(st.queries, queryId, stepId),
     timers  |-> st.timers (+) SetToBag({StepTimer(queryId, stepId)})]

\* A loop that starts every step, whatever its status.
RECURSIVE ExecuteEvery(_, _, _)
ExecuteEvery(st, queryId, steps) ==
    IF steps = <<>> THEN st
    ELSE ExecuteEvery(handleExecuteStep(st, queryId, Head(steps).id),
                      queryId, Tail(steps))

\* A loop that stops after the first pending step it has started.
RECURSIVE ExecutePendingFirst(_, _, _)
ExecutePendingFirst(st, queryId, steps) ==
    IF steps = <<>> THEN st
    ELSE IF Head(steps).status = "pending"
         THEN handleExecuteStep(st, queryId, Head(steps).id)
         ELSE ExecutePendingFirst(st, queryId, Tail(steps))

\* query.steps.forEach(step => { if (step.status === 'pending') ... })
RECURSIVE ExecutePending(_, _, _)
ExecutePending(st, queryId, steps) ==
    IF steps = <<>> THEN st
    ELSE ExecutePending(
             IF Head(steps).status = "pending"
             THEN handleExecuteStep(st, queryId, Head(steps).id)
             ELSE st,
             queryId, Tail(steps))

\* handleExecuteWorkflow, the setTimeout callback, first part
MarkCompleted(qs, queryId) ==
    [i \in DOMAIN qs |->
        IF qs[i].id = queryId THEN [qs[i] EXCEPT !.status = "completed"]
        ELSE qs[i]]

ResultPrefix == <<"R", "e", "s", "u", "l", "t", ":", " ">>

LayerType(query) ==
    IF includes(toLowerCase(query), KwFlood) THEN "flood-risk"
    ELSE IF includes(toLowerCase(query), KwGreen) THEN "green-space"
    ELSE "heat-island"

LayerColor(query) ==
    IF includes(toLowerCase(query), KwFlood) THEN "#dc2626"
    ELSE IF includes(toLowerCase(query), KwGreen) THEN "#16a34a"
    ELSE "#f59e0b"

\* sampleLayer.  The id `layer-${Date.now()}` is left out; queryId is not a
\* field of MapLayer: it records the queryId the callback closes over, so
\* that a layer can be traced to the session it was appended for.
SampleLayer(queryId, query) ==
    [name |-> ResultPrefix \o query,
     type |-> LayerType(query),
     data |-> [features |-> <<>>],
     visible |-> TRUE,
     color |-> LayerColor(query),
     queryId |-> queryId]

\* ------------------------------------------------------- the user's inputs
FloodSample ==
    <<"F", "i", "n", "d", " ", "f", "l", "o", "o", "d", "-", "r", "i", "s",
      "k", " ", "z", "o", "n", "e", "s", " ", "n", "e", "a", "r", " ", "S",
      "a", "b", "a", "r", "m", "a", "t", "i", " ", "R", "i", "v", "e", "r">>

ParkSample ==
    <<"L", "o", "c", "a", "t", "e", " ", "p", "a", "r", "k", "s", " ", "w",
      "i", "t", "h", "i", "n", " ", "2", "k", "m", " ", "o", "f", " ", "K",
      "a", "n", "k", "a", "r", "i", "a", " ", "L", "a", "k", "e">>

HeatSample ==
    <<"I", "d", "e", "n", "t", "i", "f", "y", " ", "u", "r", "b", "a", "n",
      " ", "h", "e", "a", "t", " ", "i", "s", "l", "a", "n", "d", "s", " ",
      "i", "n", " ", "A", "h", "m", "e", "d", "a", "b", "a", "d">>

HelloWorld ==
    <<" ", "h", "e", "l", "l", "o", " ", "w", "o", "r", "l", "d", " ">>

Blank == <<" ", " ">>

\* What the user types into the input box.  The heat sample is left to
\* SelectorSpec: its session has two steps, as the session of the park sample.
TypedQueries == {FloodSample, ParkSample, HelloWorld, Blank}

\* What the user types into a number field and into a text field of the
\* edit form.  A text field is saved by the same code as a number field, but
\* for parseFloat; the user of the model leaves the text fields as they are.
TypedNumbers == {"7"}
TypedStrings == {}

\* onChange of a parameter field: a number field is parsed, a text field is
\* taken as typed.
Typed(value) ==
    IF value.num THEN {Num(t) : t \in TypedNumbers}
    ELSE {Str(t) : t \in TypedStrings}

\* The parameter mappings the edit form of a step can hold when Save is
\* pressed: every key keeps its value or has a typed one.
EditedParams(step) ==
    LET keys == DOMAIN step.parameters
        vals == UNION {{step.parameters[k]} \cup Typed(step.parameters[k]) : k \in keys}
    IN  {p \in [keys -> vals] :
            \A k \in keys :
                p[k] \in {step.parameters[k]} \cup Typed(step.parameters[k])}

\* A step is edited when one of its parameters holds a typed value.
Edited(step) ==
    \E k \in DOMAIN step.parameters :
        step.parameters[k].text \in TypedNumbers \cup TypedStrings

\* The number of edited steps of the session list.
RECURSIVE EditedCount(_)
EditedCount(qs) ==
    IF qs = <<>> THEN 0
    ELSE Len(SelectSeq(Head(qs).steps, Edited)) + EditedCount(Tail(qs))

\* The pending workflow timers.
WorkflowTimers == {t \in BagToSet(timers) : t.kind = "workflow"}

\* The executeWorkflow invocations so far: each one has its callback pending
\* or has appended its layer.
RECURSIVE Copies(_)
Copies(ts) ==
    IF ts = {} THEN 0
    ELSE LET t == CHOOSE x \in ts : TRUE
         IN  CopiesIn(t, timers) + Copies(ts \ {t})

Runs == Copies(WorkflowTimers) + Len(mapLayers)

\* The number of steps of the session list.
RECURSIVE TotalSteps(_)
TotalSteps(qs) ==
    IF qs = <<>> THEN 0 ELSE Len(Head(qs).steps) + TotalSteps(Tail(qs))

\* ------------------------------------------------------------ the actions
\* ChatPanel.handleSubmit (inputQuery.trim() is not empty) -> handleSubmitQuery
SubmitQuery(text) ==
    /\ Len(queries) < MaxSessions
    /\ trim(text) # <<>>
    /\ HandleSubmitQuery(trim(text))
    /\ TotalSteps(queries') <= MaxTotalSteps

\* WorkflowStep: the edit button (step.editable), the form, handleSaveEdit
\* -> ChatPanel onEdit -> handleEditStep
EditStep(i, j, params) ==
    /\ i \in DOMAIN queries
    /\ j \in DOMAIN queries[i].steps
    /\ queries[i].steps[j].editable
    /\ params \in EditedParams(queries[i].steps[j])
    /\ queries' = HandleEditStep(queries, queries[i].id, queries[i].steps[j].id,
                                 [parameters |-> params])
    /\ EditedCount(queries') <= MaxEdited
    /\ UNCHANGED <<mapLayers, timers>>

\* WorkflowStep: the play button (step.status === 'pending')
\* -> ChatPanel onExecute -> handleExecuteStep
ExecuteStep(i, j) ==
    /\ i \in DOMAIN queries
    /\ j \in DOMAIN queries[i].steps
    /\ queries[i].steps[j].status = "pending"
    /\ BagCardinality(timers) < MaxTimers
    /\ LET st == handleExecuteStep([queries |-> queries, timers |-> timers],
                                   queries[i].id, queries[i].steps[j].id)
       IN  /\ queries' = st.queries
           /\ timers' = st.timers
    /\ UNCHANGED mapLayers

\* handleExecuteWorkflow: the state and the timer queue after the call
handleExecuteWorkflow(st, queryId) ==
    IF ~ \E i \in DOMAIN st.queries : st.queries[i].id = queryId THEN st
    ELSE LET query == st.queries[CHOOSE i \in DOMAIN st.queries :
                                    /\ st.queries[i].id = queryId
                                    /\ \A k \in 1..(i - 1) : st.queries[k].id # queryId]
             after == ExecutePending(st, queryId, query.steps)
         IN  [queries |-> after.queries,
              timers  |-> after.timers
                          (+) SetToBag({WorkflowTimer(queryId, query.query)})]

\* A button that is shown for a session without steps too.
ShowsExecuteWorkflowWithoutSteps(query) == query.status = "processing"

\* ChatPanel: the Execute Complete Workflow button
\* (query.steps.length > 0 && query.status === 'processing')
ShowsExecuteWorkflow(query) ==
    Len(query.steps) > 0 /\ query.status = "processing"

ExecuteWorkflow(i) ==
    /\ i \in DOMAIN queries
    /\ ShowsExecuteWorkflow(queries[i])
    /\ Runs < MaxRuns
    /\ LET st == handleExecuteWorkflow([queries |-> queries, timers |-> timers],
                                       queries[i].id)
       IN  /\ BagCardinality(st.timers) <= MaxTimers
           /\ queries' = st.queries
           /\ timers' = st.timers
    /\ UNCHANGED mapLayers

\* A step timer that is due runs its callback.
FireStepTimer(t) ==
    /\ BagIn(t, timers)
    /\ t.kind = "step"
    /\ t.remaining = 0
    /\ queries' = StepTimerCallback(queries, t.queryId, t.stepId)
    /\ timers' = timers (-) SetToBag({t})
    /\ UNCHANGED mapLayers

\* A workflow timer that is due runs its callback.
FireWorkflowTimer(t) ==
    /\ BagIn(t, timers)
    /\ t.kind = "workflow"
    /\ t.remaining = 0
    /\ queries' = MarkCompleted(queries, t.queryId)
    /\ mapLayers' = Append(mapLayers, SampleLayer(t.queryId, t.query))
    /\ timers' = timers (-) SetToBag({t})

Elapse(t) == [t EXCEPT !.remaining = @ - 1]

\* One time unit passes.  A timer that is due fires before the clock moves.
Tick ==
    /\ timers # EmptyBag
    /\ \A t \in BagToSet(timers) : t.remaining > 0
    /\ timers' = [u \in {Elapse(t) : t \in BagToSet(timers)} |->
                     CopiesIn([u EXCEPT !.remaining = @ + 1], timers)]
    /\ UNCHANGED <<queries, mapLayers>>

MaxSteps == 3    \* the longest template

Next ==
    \/ \E text \in TypedQueries : SubmitQuery(text)
    \/ \E i \in 1..MaxSessions, j \in 1..MaxSteps :
          \E params \in IF i \in DOMAIN queries /\ j \in DOMAIN queries[i].steps
                        THEN EditedParams(queries[i].steps[j]) ELSE {} :
              EditStep(i, j, params)
    \/ \E i \in 1..MaxSessions, j \in 1..MaxSteps : ExecuteStep(i, j)
    \/ \E i \in 1..MaxSessions : ExecuteWorkflow(i)
    \/ \E t \in BagToSet(timers) : FireStepTimer(t)
    \/ \E t \in BagToSet(timers) : FireWorkflowTimer(t)
    \/ Tick

Spec == Init /\ [][Next]_vars

\* setTimeout callbacks always run, and time always passes.
Fairness ==
    /\ WF_vars(\E t \in BagToSet(timers) : FireStepTimer(t))
    /\ WF_vars(\E t \in BagToSet(timers) : FireWorkflowTimer(t))
    /\ WF_vars(Tick)

FairSpec == Spec /\ Fairness

\* ------------------------------------- one executeWorkflow for each session
\* The executeWorkflow invocations on session queryId so far.
RunsOf(queryId) ==
    Copies({t \in WorkflowTimers : t.queryId = queryId})
    + Len(SelectSeq(mapLayers, LAMBDA l : l.queryId = queryId))

\* The user presses Execute Complete Workflow of a session once only.
ExecuteWorkflowOnce(i) ==
    /\ i \in DOMAIN queries
    /\ RunsOf(queries[i].id) = 0
    /\ ExecuteWorkflow(i)

NextOnce ==
    \/ \E text \in TypedQueries : SubmitQuery(text)
    \/ \E i \in 1..MaxSessions, j \in 1..MaxSteps :
          \E params \in IF i \in DOMAIN queries /\ j \in DOMAIN queries[i].steps
                        THEN EditedParams(queries[i].steps[j]) ELSE {} :
              EditStep(i, j, params)
    \/ \E i \in 1..MaxSessions, j \in 1..MaxSteps : ExecuteStep(i, j)
    \/ \E i \in 1..MaxSessions : ExecuteWorkflowOnce(i)
    \/ \E t \in BagToSet(timers) : FireStepTimer(t)
    \/ \E t \in BagToSet(timers) : FireWorkflowTimer(t)
    \/ Tick

OnceSpec == Init /\ [][NextOnce]_vars /\ Fairness

\* --------------------------------------------- sessions of two steps or none
\* What the user types into the input box when the sessions are kept small.
ShortQueries == {ParkSample, HelloWorld}

NextShort ==
    \/ \E text \in ShortQueries : SubmitQuery(text)
    \/ \E i \in 1..MaxSessions, j \in 1..MaxSteps :
          \E params \in IF i \in DOMAIN queries /\ j \in DOMAIN queries[i].steps
                        THEN EditedParams(queries[i].steps[j]) ELSE {} :
              EditStep(i, j, params)
    \/ \E i \in 1..MaxSessions, j \in 1..MaxSteps : ExecuteStep(i, j)
    \/ \E i \in 1..MaxSessions : ExecuteWorkflow(i)
    \/ \E t \in BagToSet(timers) : FireStepTimer(t)
    \/ \E t \in BagToSet(timers) : FireWorkflowTimer(t)
    \/ Tick

ShortSpec == Init /\ [][NextShort]_vars /\ Fairness

\* ---------------------------------------------- the Template Selector alone
\* Pieces of text a query is put together from: the keywords in mixed case,
\* split over two pieces, and text that matches nothing.
Tokens ==
    { <<"F", "l", "o">>, <<"o", "D">>, <<"p", "a", "r", "k">>,
      <<"G", "R", "E", "E", "N">>, <<"H", "e", "a", "t">>,
      <<"h", "e">>, <<"a", "t">>, <<" ">> }

RECURSIVE Concat(_)
Concat(pieces) ==
    IF pieces = <<>> THEN <<>> ELSE Head(pieces) \o Concat(Tail(pieces))

\* Every query of at most MaxTokens pieces, and the samples of the chat panel.
TokenQueries ==
    {Concat(pieces) : pieces \in UNION {[1..n -> Tokens] : n \in 0..MaxTokens}}
    \cup {FloodSample, ParkSample, HeatSample}

\* handleSubmitQuery is given any of these queries, on an empty session list.
SelectTemplate ==
    /\ queries = <<>>
    /\ \E query \in TokenQueries : HandleSubmitQuery(query)

SelectorSpec == Init /\ [][SelectTemplate]_vars

\* ----------------------------------------------------------------- claims
\* The spellings of a keyword letter that toLowerCase maps to it.
Spellings(c) ==
    {c} \cup {UpperCase[k] : k \in {k \in 1..Len(LowerCase) : LowerCase[k] = c}}

\* kw occurs in query, whatever the case of the letters of query.
Mentions(query, kw) ==
    \E i \in 1..(Len(query) - Len(kw) + 1) :
        \A k \in 1..Len(kw) : query[i + k - 1] \in Spellings(kw[k])

Operations(steps) == [j \in DOMAIN steps |-> steps[j].operation]

\* C1: the steps the Template Selector gives a query are the flood template
\* if the query mentions "flood" in any case, else the green-space template
\* if it mentions "park" or "green", else the heat-island template if it
\* mentions "heat", else none; every step is pending and editable.
C1_TemplateSelector ==
    \A i \in DOMAIN queries :
        LET q == queries[i].query
            steps == queries[i].steps
        IN  /\ Operations(steps) =
                 IF Mentions(q, KwFlood)
                 THEN <<"Data Collection", "Hydrological Analysis",
                        "Risk Zone Classification">>
                 ELSE IF Mentions(q, KwPark) \/ Mentions(q, KwGreen)
                 THEN <<"Green Space Detection", "Proximity Analysis">>
                 ELSE IF Mentions(q, KwHeat)
                 THEN <<"Land Surface Temperature", "Urban Heat Island Detection">>
                 ELSE <<>>
            /\ \A j \in DOMAIN steps :
                  steps[j].status = "pending" /\ steps[j].editable = TRUE

\* A query that spells "flood" with capitals and also mentions "green" has
\* been given the three flood steps.
C1_Witness ==
    \E i \in DOMAIN queries :
        /\ Mentions(queries[i].query, KwFlood)
        /\ ~ includes(queries[i].query, KwFlood)
        /\ Mentions(queries[i].query, KwGreen)
        /\ Len(queries[i].steps) = 3

\* The layers appended for session queryId.
LayersOf(queryId) == SelectSeq(mapLayers, LAMBDA l : l.queryId = queryId)

\* Session i has the first sample query of the chat panel.
IsScenarioA(i) == i \in DOMAIN queries /\ queries[i].query = FloodSample

ScenarioAStarted(i) ==
    /\ IsScenarioA(i)
    /\ \E t \in WorkflowTimers : t.queryId = queries[i].id

ScenarioADone(i) ==
    /\ IsScenarioA(i)
    /\ Len(queries[i].steps) = 3
    /\ \A j \in DOMAIN queries[i].steps :
          /\ queries[i].steps[j].status = "completed"
          /\ queries[i].steps[j].result =
                <<[message |-> "Step completed successfully",
                   data |-> "sample_output.geojson"]>>
    /\ queries[i].status = "completed"
    /\ Len(LayersOf(queries[i].id)) = 1
    /\ LayersOf(queries[i].id)[1].type = "flood-risk"
    /\ LayersOf(queries[i].id)[1].color = "#dc2626"

\* C2: scenario A.  A session submitted with the flood sample query starts
\* with three pending steps, and once its workflow is executed (once) it
\* comes to have every step completed with the constant result, its status
\* completed and exactly one layer, of type flood-risk and color #dc2626,
\* and stays so.
C2_ScenarioA ==
    /\ [][\A i \in 1..MaxSessions :
            (i \notin DOMAIN queries /\ IsScenarioA(i)')
                => /\ Len(queries'[i].steps) = 3
                   /\ \A j \in 1..3 : queries'[i].steps[j].status = "pending"]_vars
    /\ \A i \in 1..MaxSessions : ScenarioAStarted(i) ~> []ScenarioADone(i)

\* Scenario A has run to its end, next to another session.
C2_Witness ==
    \E i \in DOMAIN queries : ScenarioADone(i) /\ Len(queries) = 2

CompletedSessions == {i \in DOMAIN queries : queries[i].status = "completed"}

\* C3: no session accounts for more than one layer, and there are never
\* more layers than completed sessions.
C3_OneLayerPerCompletedSession ==
    /\ \A i \in DOMAIN queries : Len(LayersOf(queries[i].id)) <= 1
    /\ Len(mapLayers) <= Cardinality(CompletedSessions)

\* C4: scenario B.  A session without steps has no layer, and no workflow
\* callback that would append one is pending for it.
C4_NoLayerWithoutSteps ==
    \A i \in DOMAIN queries :
        queries[i].steps = <<>>
            => /\ LayersOf(queries[i].id) = <<>>
               /\ ~ \E t \in WorkflowTimers : t.queryId = queries[i].id

\* A session without steps stands next to a session that has its layer.
C4_Witness ==
    \E i, k \in DOMAIN queries :
        /\ queries[i].steps = <<>>
        /\ queries[i].query = trim(HelloWorld)
        /\ LayersOf(queries[k].id) # <<>>
        /\ LayersOf(queries[i].id) = <<>>

\* C5: the parameters of a step change only while the step is pending.
C5_EditOnlyWhilePending ==
    [][\A i \in DOMAIN queries : \A j \in DOMAIN queries[i].steps :
          queries'[i].steps[j].parameters # queries[i].steps[j].parameters
              => queries[i].steps[j].status = "pending"]_vars

\* C6: a session that is completed does not change any more.
C6_CompletedIsImmutable ==
    [][\A i \in DOMAIN queries :
          queries[i].status = "completed" => queries'[i] = queries[i]]_vars

AllStepsCompleted(i) ==
    /\ i \in DOMAIN queries
    /\ queries[i].steps # <<>>
    /\ \A j \in DOMAIN queries[i].steps : queries[i].steps[j].status = "completed"

\* C7: a session whose steps have all completed comes to be completed
\* itself, with a layer appended for it.
C7_AllStepsCompletedLeadsToCompleted ==
    \A i \in 1..MaxSessions :
        AllStepsCompleted(i)
            ~> (/\ i \in DOMAIN queries
                /\ queries[i].status = "completed"
                /\ LayersOf(queries[i].id) # <<>>)

\* C8: a step has a result exactly when it is completed, and the result is
\* the constant placeholder.
C8_ConstantResult ==
    \A i \in DOMAIN queries : \A j \in DOMAIN queries[i].steps :
        LET step == queries[i].steps[j]
        IN  /\ (step.result # <<>>) <=> (step.status = "completed")
            /\ step.result # <<>>
                  => step.result = <<[message |-> "Step completed successfully",
                                      data |-> "sample_output.geojson"]>>

\* Scenario C: a step whose number parameter was edited has completed with
\* the placeholder, next to a completed step that was not edited.
C8_Witness ==
    \E i \in DOMAIN queries : \E j, k \in DOMAIN queries[i].steps :
        /\ Edited(queries[i].steps[j])
        /\ ~ Edited(queries[i].steps[k])
        /\ queries[i].steps[j].result # <<>>
        /\ queries[i].steps[j].result = queries[i].steps[k].result

\* The updates an edit can carry: the parameters of the edit form, and
\* other fields of a step.
UpdatesOf(step) ==
    {[parameters |-> p] : p \in EditedParams(step)}
    \cup {[editable |-> FALSE], [status |-> "pending", result |-> <<>>]}

\* C9: editStep applied twice with the same updates gives the session list
\* that applying it once gives.
C9_EditIdempotent ==
    \A i \in DOMAIN queries : \A j \in DOMAIN queries[i].steps :
        \A updates \in UpdatesOf(queries[i].steps[j]) :
            LET once == HandleEditStep(queries, queries[i].id,
                                       queries[i].steps[j].id, updates)
            IN  HandleEditStep(once, queries[i].id, queries[i].steps[j].id, updates)
                    = once

\* An edit has been applied: a step holds typed parameters, and applying the
\* same parameters again changes nothing.
C9_Witness ==
    \E i \in DOMAIN queries : \E j \in DOMAIN queries[i].steps :
        /\ Edited(queries[i].steps[j])
        /\ HandleEditStep(queries, queries[i].id, queries[i].steps[j].id,
                          [parameters |-> queries[i].steps[j].parameters]) = queries

\* C10: no step and no session has status error.
C10_NoErrorStatus ==
    /\ \A i \in DOMAIN queries : queries[i].status # "error"
    /\ \A i \in DOMAIN queries : \A j \in DOMAIN queries[i].steps :
          queries[i].steps[j].status # "error"

\* Every operation has acted: two sessions, an edited step, a completed step,
\* a completed session.
C10_Witness ==
    /\ Len(queries) = 2
    /\ \E i \in DOMAIN queries : queries[i].status = "completed"
    /\ \E i \in DOMAIN queries : \E j \in DOMAIN queries[i].steps :
          Edited(queries[i].steps[j]) /\ queries[i].steps[j].status = "completed"
    /\ \E i \in DOMAIN queries : \E j \in DOMAIN queries[i].steps :
          queries[i].steps[j].status = "pending"

\* The pending step timers of step stepId of session queryId.
StepTimersOf(queryId, stepId) ==
    Copies({t \in BagToSet(timers) :
               t.kind = "step" /\ t.queryId = queryId /\ t.stepId = stepId})

\* C11: a step changes status only from pending to executing and from
\* executing to completed, a session only from processing to completed; a
\* step has one timer while it is executing and none otherwise, so no step
\* is started twice.
C11_StatusMovesForward ==
    /\ [][\A i \in DOMAIN queries :
            /\ i \in DOMAIN queries'
            /\ queries'[i].status # queries[i].status
                  => /\ queries[i].status = "processing"
                     /\ queries'[i].status = "completed"
            /\ \A j \in DOMAIN queries[i].steps :
                  /\ j \in DOMAIN queries'[i].steps
                  /\ queries'[i].steps[j].status # queries[i].steps[j].status
                        => <<queries[i].steps[j].status, queries'[i].steps[j].status>>
                              \in {<<"pending", "executing">>,
                                   <<"executing", "completed">>}]_vars
    /\ [](\A i \in DOMAIN queries : \A j \in DOMAIN queries[i].steps :
             StepTimersOf(queries[i].id, queries[i].steps[j].id)
                = IF queries[i].steps[j].status = "executing" THEN 1 ELSE 0)

\* A session holds a completed, an executing and a pending step, next to a
\* completed session.
C11_Witness ==
    \E i, k \in DOMAIN queries :
        /\ queries[k].status = "completed"
        /\ queries[i].status = "processing"
        /\ \E j \in DOMAIN queries[i].steps : queries[i].steps[j].status = "completed"
        /\ \E j \in DOMAIN queries[i].steps : queries[i].steps[j].status = "executing"
        /\ \E j \in DOMAIN queries[i].steps : queries[i].steps[j].status = "pending"

StepIs(i, j, status) ==
    /\ i \in DOMAIN queries
    /\ j \in DOMAIN queries[i].steps
    /\ queries[i].steps[j].status = status

WorkflowPending(i) ==
    /\ i \in DOMAIN queries
    /\ \E t \in WorkflowTimers : t.queryId = queries[i].id

\* C12: a step that is executing comes to be completed, and a session with
\* a workflow callback pending comes to be completed, whatever the user does
\* in between.
C12_NoCancellation ==
    /\ \A i \in 1..MaxSessions : \A j \in 1..MaxSteps :
          StepIs(i, j, "executing") ~> StepIs(i, j, "completed")
    /\ \A i \in 1..MaxSessions :
          WorkflowPending(i)
             ~> (i \in DOMAIN queries /\ queries[i].status = "completed")

\* A step started before an edit and a submission has completed, and the
\* session the workflow was executed on is completed.
C12_Witness ==
    /\ Len(queries) = 2
    /\ queries[1].status = "completed"
    /\ LayersOf(queries[1].id) # <<>>
    /\ \E j \in DOMAIN queries[1].steps :
          Edited(queries[1].steps[j]) /\ queries[1].steps[j].status = "completed"

\* The session a layer was appended for.
SessionOf(layer) == queries[CHOOSE i \in DOMAIN queries : queries[i].id = layer.queryId]

\* C13: the type and color of a layer are those of the template its session
\* was given: flood-risk and #dc2626 for the flood steps, green-space and
\* #16a34a for the green-space steps, heat-island and #f59e0b for the
\* heat-island steps.
C13_LayerAgreesWithTemplate ==
    \A n \in DOMAIN mapLayers :
        LET layer == mapLayers[n]
            ops == Operations(SessionOf(layer).steps)
        IN  /\ ops = <<"Data Collection", "Hydrological Analysis",
                       "Risk Zone Classification">>
                  => layer.type = "flood-risk" /\ layer.color = "#dc2626"
            /\ ops = <<"Green Space Detection", "Proximity Analysis">>
                  => layer.type = "green-space" /\ layer.color = "#16a34a"
            /\ ops = <<"Land Surface Temperature", "Urban Heat Island Detection">>
                  => layer.type = "heat-island" /\ layer.color = "#f59e0b"

\* C14: a session whose status is completed has every step completed: no
\* step of it is pending or executing.  The step delay is shorter than the
\* workflow delay, and a step started by itself before the workflow was
\* started is due before the workflow callback.
C14_CompletedMeansAllStepsCompleted ==
    \A i \in DOMAIN queries :
        queries[i].status = "completed"
           => \A j \in DOMAIN queries[i].steps :
                 queries[i].steps[j].status = "completed"

\* A session of three steps is completed with every step completed, while
\* another session has a step started by itself and a step not started.
C14_Witness ==
    \E i, k \in DOMAIN queries :
        /\ queries[i].status = "completed"
        /\ Len(queries[i].steps) = MaxSteps
        /\ \A j \in DOMAIN queries[i].steps : queries[i].steps[j].status = "completed"
        /\ queries[k].status = "processing"
        /\ WorkflowTimers = {}
        /\ \E j \in DOMAIN queries[k].steps : queries[k].steps[j].status = "executing"
        /\ \E j \in DOMAIN queries[k].steps : queries[k].steps[j].status = "pending"

\* The step of the timer is the only step that differs after the callback,
\* and it differs in status and result only.
StepTimerFrame(t) ==
    /\ mapLayers' = mapLayers
    /\ DOMAIN queries' = DOMAIN queries
    /\ \A i \in DOMAIN queries :
          IF queries[i].id # t.queryId THEN queries'[i] = queries[i]
          ELSE /\ [queries'[i] EXCEPT !.steps = queries[i].steps] = queries[i]
               /\ DOMAIN queries'[i].steps = DOMAIN queries[i].steps
               /\ \A j \in DOMAIN queries[i].steps :
                     IF queries[i].steps[j].id # t.stepId
                     THEN queries'[i].steps[j] = queries[i].steps[j]
                     ELSE [queries'[i].steps[j]
                              EXCEPT !.status = queries[i].steps[j].status,
                                     !.result = queries[i].steps[j].result]
                             = queries[i].steps[j]

\* The session of the timer is the only session that differs after the
\* callback, and it differs in status only; the layers there were stay.
WorkflowTimerFrame(t) ==
    /\ Len(mapLayers') = Len(mapLayers) + 1
    /\ SubSeq(mapLayers', 1, Len(mapLayers)) = mapLayers
    /\ DOMAIN queries' = DOMAIN queries
    /\ \A i \in DOMAIN queries :
          IF queries[i].id # t.queryId THEN queries'[i] = queries[i]
          ELSE [queries'[i] EXCEPT !.status = queries[i].status] = queries[i]

\* C15: no update is lost to a timer in flight.  The callback of a step
\* timer changes the status and the result of the step of its session id
\* and step id and nothing else; the callback of a workflow timer changes
\* the status of its session and nothing else of the sessions.  Every
\* session submitted and every parameter saved since the timer was armed,
\* the parameters of the targeted step and the same-numbered steps of other
\* sessions included, is there unchanged after the callback.
C15_TimerChangesOnlyItsTarget ==
    [][\A t \in BagToSet(timers) :
          (t.remaining = 0 /\ timers' = timers (-) SetToBag({t}))
             => IF t.kind = "step" THEN StepTimerFrame(t)
                ELSE WorkflowTimerFrame(t)]_vars

\* The first step of a session has completed with the parameters saved for
\* it, the session submitted next to it has its first step, of the same
\* step id, pending, and the next step of the first session is in flight.
C15_Witness ==
    /\ Len(queries) = 2
    /\ queries[1].steps # <<>> /\ queries[2].steps # <<>>
    /\ queries[1].steps[1].id = queries[2].steps[1].id
    /\ queries[1].steps[1].status = "completed"
    /\ Edited(queries[1].steps[1])
    /\ queries[2].steps[1].status = "pending"
    /\ queries[2].status = "processing"
    /\ \E j \in DOMAIN queries[1].steps : queries[1].steps[j].status = "executing"

====
